---- MODULE Spec2Model ----
(***************************************************************************)
(* A state-machine model of the route planner of TransCalc (planner.py):   *)
(* the Overpass gateway overpass_post with its mirrors, retry rounds and   *)
(* backoff, the category queries of overpass_query, and analyze_path.      *)
(*                                                                         *)
(* Conventions.  A Python exception is a record [type, attempt, url]; the  *)
(* exception raised by the HTTP attempt (attempt a, mirror u) is           *)
(* [type |-> "RequestException", attempt |-> a, url |-> u], so two         *)
(* attempts never raise the same exception object.  Optional values are    *)
(* records with a distinguishing field.  Loop indices are 0-based as in    *)
(* the source.                                                             *)
(***************************************************************************)
EXTENDS Integers, Sequences, FiniteSets, TLC

\* ------------------------------------------------------------------ bounds
\* Largest OSM_RETRIES value the environment is drawn with (besides the default).
MaxRetries == 1
\* Largest retries argument a direct caller of overpass_post passes.
MaxRetriesArg == 1

\* ------------------------------------------------------- program constants
\* len(OVERPASS_URLS)
MirrorCount == 4
\* _env_int("OSM_RETRIES", 2)
DefaultRetries == 2
\* overpass_post(q, timeout_s=30, retries=1) in landuse_near / buildings_count_within
HelperRetries == 1

\* _env_backoff("OSM_BACKOFF", [1, 3, 6])
DefaultBackoff == <<1, 3, 6>>

\* ------------------------------------------------------------- environment
\* A raw environment value: unset, or a text.  A text is modelled by what int()
\* makes of it: a number, or junk that int() rejects.
Unset == [set |-> FALSE, num |-> FALSE, val |-> 0]
Junk == [set |-> TRUE, num |-> FALSE, val |-> 0]
Num(n) == [set |-> TRUE, num |-> TRUE, val |-> n]

\* Values of OSM_RETRIES
RetriesEnvValues == {Unset, Junk} \cup {Num(n) : n \in -1..MaxRetries}

\* One comma-separated part of OSM_BACKOFF: a number or junk.
Tok(n) == [num |-> TRUE, val |-> n]
JunkTok == [num |-> FALSE, val |-> 0]

\* Values of OSM_BACKOFF: unset, or the list of its non-empty comma-separated
\* parts ("" has none).
BackoffEnvValues ==
  { [set |-> FALSE, parts |-> <<>>],
    [set |-> TRUE, parts |-> <<>>],
    [set |-> TRUE, parts |-> <<JunkTok>>],
    [set |-> TRUE, parts |-> <<Tok(5)>>],
    [set |-> TRUE, parts |-> <<Tok(2), JunkTok, Tok(4)>>],
    [set |-> TRUE, parts |-> <<Tok(0), Tok(-1)>>],
    [set |-> TRUE, parts |-> <<Tok(-1)>>] }

\* _env_int(name, default): int(os.environ.get(name, str(default))), default on error
_env_int(raw, default) ==
  IF raw.set /\ raw.num THEN raw.val ELSE default

RECURSIVE ParseParts(_)
\* the loop of _env_backoff: int(p) for each part, skipping parts int() rejects
ParseParts(parts) ==
  IF parts = <<>> THEN <<>>
  ELSE IF Head(parts).num
       THEN <<Head(parts).val>> \o ParseParts(Tail(parts))
       ELSE ParseParts(Tail(parts))

\* _env_backoff(name, default): "return vals or default"
_env_backoff(raw, default) ==
  IF ~raw.set \/ raw.parts = <<>> THEN default
  ELSE IF ParseParts(raw.parts) = <<>> THEN default ELSE ParseParts(raw.parts)

Min(a, b) == IF a <= b THEN a ELSE b
Max(a, b) == IF a >= b THEN a ELSE b

\* ------------------------------------------------------------------- state
VARIABLES
  OSM_RETRIES,    \* os.environ["OSM_RETRIES"]
  OSM_BACKOFF,    \* os.environ["OSM_BACKOFF"]
  \* --- the frame of the running (or last) overpass_post call
  postPc,         \* "idle" | "attempt" | "backoff" | "exhausted" | "done"
  caller,         \* who called: "none" | "direct" | "overpass_query" | "landuse_near" | "buildings_count_within"
  rts,            \* local rts
  backoff,        \* local backoff
  attempt,        \* outer loop variable
  urlIdx,         \* position of the inner loop in OVERPASS_URLS (0-based)
  last_exc,       \* local last_exc
  attemptLog,     \* the requests.post calls made by this call, in order, each with
                  \* its round, its mirror and how it ended
  sleepLog,       \* the time.sleep calls completed by this call, in order, each with
                  \* the round it followed, its length and the attempts made before it
  postOut,        \* how the call ended: return value or raised exception
  \* --- the frame of the running (or last) analyze_path call
  pc,             \* "idle" | "query" | "landuse" | "buildings" | "map" | "returned" | "raised"
  path,           \* argument path
  top_k,          \* argument top_k
  kindIdx,        \* which of the six overpass_query calls is running (1..6)
  live,           \* asphalt, quarries, rubbers, highways, ready_mix, bitumen_sources
  fb,             \* local fb: what _load_fallback_facilities returned
  answered,       \* how many of the six overpass_query calls have returned
  luHow,          \* how the landuse_score call of the candidate went:
                  \* "none" | "hit" | "failed" | "answered"
  bHow,           \* how the buildings_count_within call of the candidate last
                  \* scored went: "none" | "failed" | "answered"
  fallback,       \* fallback_asphalt, fallback_waste, fallback_rubber_recycling, fallback_rubber_production
  weights,        \* argument weights
  stage,          \* which scoring loop runs: "existing" | "proposed"
  candIdx,        \* 1-based position of that loop
  lu,             \* (lu_score, lu_label) of the candidate being scored
  existing,       \* existing_scored
  existing_top,   \* existing_top
  proposed_points,\* local proposed_points
  proposed,       \* proposed_scored
  cache,          \* module global _LANDUSE_CACHE
  map_path,       \* local map_path
  raisedExc,      \* the exception analyze_path raised
  mapOutcome,     \* what happened in the map step ("none" before it)
  queried,        \* TRUE once this analyze_path call has issued an HTTP request
  failedKeys,     \* the cache keys written after a land-use query that failed
  \* --- two threads calling landuse_score at the same time
  lsPc,           \* per thread: "idle" | "query" | "store" | "done"
  lsPoint,        \* per thread: argument point
  lsMissed,       \* per thread: TRUE once the call found its key absent from the cache
  lsInfo,         \* per thread: local info (what landuse_near returned)
  lsRes,          \* per thread: the value landuse_score returned
  \* --- score_candidate called on its own
  scPc,           \* "idle" | "scored"
  scArgs,         \* the arguments of the call, with what landuse_score and
                  \* buildings_count_within returned to it
  scFrac,         \* local frac of the call
  scOut,          \* what the call returned
  scArgs2,        \* a second call: the same arguments but for ready_mix
  scOut2,         \* what the second call returned
  scFrac2,        \* the path fraction of an otherwise identical candidate
  scTotal2,       \* local total for that candidate
  \* --- slice_path_segment called on its own
  slPc,           \* "idle" | "done" | "both"
  slArgs,         \* the arguments path, length (in metres), anchor, direction
  slOut,          \* the sub-path returned
  slOut2,         \* the sub-path returned for the other direction
  mdPc,           \* "idle" | "mid" | "at": the calls of the midpoint comparison
  mdPath,         \* the path of both calls
  mdMid,          \* what path_midpoint returned
  mdS,            \* the distance s asked of point_at_distance_m, as num/den
  mdAt            \* what point_at_distance_m returned

postVars == <<postPc, caller, rts, backoff, attempt, urlIdx, last_exc, attemptLog, sleepLog, postOut>>
envVars == <<OSM_RETRIES, OSM_BACKOFF>>
analyzeVars == <<pc, path, top_k, kindIdx, live, fb, answered, luHow, bHow, fallback, weights, stage, candIdx, lu,
                 existing, existing_top, proposed_points, proposed, cache, map_path, raisedExc,
                 mapOutcome, failedKeys>>
raceVars == <<lsPc, lsPoint, lsMissed, lsInfo, lsRes>>
\* the state of the calls made outside analyze_path
scoreVars == <<scPc, scArgs, scFrac, scOut, scArgs2, scOut2, scFrac2, scTotal2>>
sliceVars == <<slPc, slArgs, slOut, slOut2>>
midVars == <<mdPc, mdPath, mdMid, mdS, mdAt>>
auxVars == <<raceVars, scoreVars, sliceVars, midVars>>
vars == <<OSM_RETRIES, OSM_BACKOFF, postPc, caller, rts, backoff, attempt, urlIdx,
          last_exc, attemptLog, sleepLog, postOut,
          pc, path, top_k, kindIdx, live, fb, answered, luHow, bHow, fallback, weights, stage, candIdx, lu,
          existing_top,
          existing, proposed_points, proposed, cache, map_path, raisedExc, mapOutcome,
          queried, failedKeys, auxVars>>

NoExc == [type |-> "None", attempt |-> -1, url |-> -1]
RequestException(a, u) == [type |-> "RequestException", attempt |-> a, url |-> u]
ValueError == [type |-> "ValueError", attempt |-> -1, url |-> -1]
RuntimeError == [type |-> "RuntimeError", attempt |-> -1, url |-> -1]

NoOut == [kind |-> "none", exc |-> NoExc, resp |-> <<>>]
Returned(r) == [kind |-> "return", exc |-> NoExc, resp |-> r]
Raised(e) == [kind |-> "raise", exc |-> e, resp |-> <<>>]

\* An optional argument: None or a number
NoneArg == [given |-> FALSE, val |-> 0]
Arg(n) == [given |-> TRUE, val |-> n]

\* ------------------------------------------------------------ overpass_post
\* "rts = retries if retries is not None else _env_int("OSM_RETRIES", 2)"
RetriesOf(retries, env) ==
  IF retries.given THEN retries.val ELSE _env_int(env, DefaultRetries)

\* range(rts + 2): one round too many
LoopEntry_ExtraRound(a, r) == IF a < r + 2 THEN "attempt" ELSE "exhausted"

\* Where control goes when "for attempt in range(rts + 1)" is entered at
\* iteration a: into the body, or past the loop.
LoopEntry(a, r) == IF a < r + 1 THEN "attempt" ELSE "exhausted"

\* Entry of overpass_post up to the first loop test.
PostEnter(who, retries) ==
  /\ caller' = who
  /\ rts' = RetriesOf(retries, OSM_RETRIES)
  /\ backoff' = _env_backoff(OSM_BACKOFF, DefaultBackoff)
  /\ last_exc' = NoExc
  /\ attempt' = 0
  /\ urlIdx' = 0
  /\ attemptLog' = <<>>
  /\ sleepLog' = <<>>
  /\ postOut' = NoOut
  /\ postPc' = LoopEntry(0, RetriesOf(retries, OSM_RETRIES))

\* the rubber query issued ahead of the quarry query
Kinds_RubberSecond == <<"asphalt", "rubber", "quarry", "highway_major", "ready_mix", "bitumen">>

\* The six kinds analyze_path queries, in the order of its calls.
Kinds == <<"asphalt", "quarry", "rubber", "highway_major", "ready_mix", "bitumen">>

\* Geography is drawn on one meridian: a point is its latitude in units of
\* 1e-6 degree (longitude is the same for every point).
\* An element of an Overpass response: located is FALSE when neither lat/lon nor
\* a center is present.
El(i, located, lat) == [id |-> i, located |-> located, lat |-> lat]

\* Responses to the asphalt query.
AsphaltResponses ==
  { <<>>,
    <<El(1, TRUE, 100004)>>,
    <<El(1, TRUE, 100004), El(2, FALSE, 0), El(3, TRUE, 100001)>> }

\* Responses to the rubber query.
RubberResponses == { <<>>, <<El(4, TRUE, 150000)>> }

\* Responses to the quarry query.
QuarryResponses == { <<>>, <<El(5, TRUE, 120000)>> }

\* Responses to the highway_major and ready_mix queries.
OtherResponses == { <<El(6, TRUE, 90000)>> }

\* Responses to the bitumen query ("sparse in OSM").
BitumenResponses == { <<>> }

\* An element of a landuse response: its landuse tag ("" when absent) and the
\* offset of its center from the queried point.
Lu(i, tag, located, off) == [id |-> i, tag |-> tag, located |-> located, off |-> off]

\* Responses to the query of landuse_near.
LanduseResponses ==
  { <<>>,
    <<Lu(1, "", TRUE, 1), Lu(2, "residential", TRUE, 900)>>,
    <<Lu(1, "farmland", TRUE, 700), Lu(2, "Industrial", TRUE, -300), Lu(3, "orchard", FALSE, 0)>> }

\* Responses to the query of buildings_count_within: the elements (ids only).
BuildingsResponses == { <<>>, <<1, 2, 3, 4, 5, 6>> }

\* Responses to a query sent by a direct caller of overpass_post.
DirectResponses == { <<>>, <<El(1, TRUE, 0)>> }

\* The responses a mirror can give to the query of the current call.
ResponsesFor(who, k) ==
  IF who = "landuse_near" THEN LanduseResponses
  ELSE IF who = "buildings_count_within" THEN BuildingsResponses
  ELSE IF who = "direct" THEN DirectResponses
  ELSE IF Kinds[k] = "asphalt" THEN AsphaltResponses
  ELSE IF Kinds[k] = "rubber" THEN RubberResponses
  ELSE IF Kinds[k] = "quarry" THEN QuarryResponses
  ELSE IF Kinds[k] = "bitumen" THEN BitumenResponses
  ELSE OtherResponses

\* requests.post succeeds, raise_for_status passes, resp.json() parses: return.
PostAttemptOk ==
  /\ postPc = "attempt"
  /\ \E r \in ResponsesFor(caller, kindIdx) :
       /\ attemptLog' = Append(attemptLog, [attempt |-> attempt, url |-> urlIdx, ok |-> TRUE,
                                          resp |-> r])
       /\ postOut' = Returned(r)
  /\ postPc' = "done"
  /\ queried' = TRUE
  /\ UNCHANGED <<caller, rts, backoff, attempt, urlIdx, last_exc, sleepLog>>
  /\ UNCHANGED <<envVars, auxVars, analyzeVars>>

\* What "except Exception as e: last_exc = e" leaves in last_exc.
Remember(old, e) == e

\* Where control goes after the attempt on mirror u of round a failed:
\* next mirror, or past the inner loop to "if attempt < rts" (backoff) or to the
\* next iteration test of the outer loop.
AfterFailure(a, u, r) ==
  IF u + 1 < MirrorCount THEN [pc |-> "attempt", attempt |-> a, url |-> u + 1]
  ELSE IF a < r THEN [pc |-> "backoff", attempt |-> a, url |-> u]
  ELSE [pc |-> LoopEntry(a + 1, r), attempt |-> a, url |-> u]

\* The attempt raises (connection error, timeout, HTTP status, bad JSON).
PostAttemptFail ==
  /\ postPc = "attempt"
  /\ attemptLog' = Append(attemptLog, [attempt |-> attempt, url |-> urlIdx, ok |-> FALSE,
                                     resp |-> <<>>])
  /\ last_exc' = Remember(last_exc, RequestException(attempt, urlIdx))
  /\ LET nxt == AfterFailure(attempt, urlIdx, rts) IN
       /\ postPc' = nxt.pc
       /\ attempt' = nxt.attempt
       /\ urlIdx' = nxt.url
  /\ queried' = TRUE
  /\ UNCHANGED <<caller, rts, backoff, sleepLog, postOut>>
  /\ UNCHANGED <<envVars, auxVars, analyzeVars>>

\* backoff[min(attempt + 1, len(backoff)-1)]: the schedule read one place ahead
WaitFor_Ahead(a, b) == b[Min(a + 1, Len(b) - 1) + 1]

\* "wait_s = backoff[min(attempt, len(backoff)-1)]" (0-based in the source)
WaitFor(a, b) == b[Min(a, Len(b) - 1) + 1]

\* "if attempt < rts: time.sleep(wait_s)"; time.sleep raises ValueError for a
\* negative length, and that exception is raised outside the try of the loop.
PostBackoff ==
  /\ postPc = "backoff"
  /\ LET wait_s == WaitFor(attempt, backoff) IN
       IF wait_s < 0
       THEN /\ postPc' = "done"
            /\ postOut' = Raised(ValueError)
            /\ UNCHANGED <<attempt, urlIdx, sleepLog>>
       ELSE /\ sleepLog' = Append(sleepLog, [after |-> attempt, secs |-> wait_s,
                                          at |-> Len(attemptLog)])
            /\ attempt' = attempt + 1
            /\ urlIdx' = 0
            /\ postPc' = LoopEntry(attempt + 1, rts)
            /\ UNCHANGED postOut
  /\ UNCHANGED <<caller, rts, backoff, last_exc, attemptLog>>
  /\ UNCHANGED <<envVars, auxVars, analyzeVars, queried>>

\* "if last_exc: raise last_exc" / "raise RuntimeError(...)"
PostExhausted ==
  /\ postPc = "exhausted"
  /\ postOut' = Raised(IF last_exc # NoExc THEN last_exc ELSE RuntimeError)
  /\ postPc' = "done"
  /\ UNCHANGED <<caller, rts, backoff, attempt, urlIdx, last_exc, attemptLog, sleepLog>>
  /\ UNCHANGED <<envVars, auxVars, analyzeVars, queried>>

\* The frame of a call is gone once its caller has taken the outcome.
PostLeave ==
  /\ postPc' = "idle"
  /\ caller' = "none"
  /\ rts' = 0
  /\ backoff' = <<>>
  /\ attempt' = 0
  /\ urlIdx' = 0
  /\ last_exc' = NoExc
  /\ attemptLog' = <<>>
  /\ sleepLog' = <<>>
  /\ postOut' = NoOut

\* --------------------------------------------- overpass_post called directly
RetriesArgs == {NoneArg} \cup {Arg(n) : n \in -1..MaxRetriesArg}

\* A caller invokes overpass_post(query, timeout_s, retries).
PostCall ==
  /\ postPc = "idle"
  /\ pc = "idle"
  /\ \E retries \in RetriesArgs : PostEnter("direct", retries)
  /\ UNCHANGED <<envVars, auxVars, analyzeVars, queried>>

\* The direct caller takes the outcome; the gateway is idle again.
PostFinish ==
  /\ postPc = "done"
  /\ caller = "direct"
  /\ PostLeave
  /\ UNCHANGED <<envVars, auxVars, analyzeVars, queried>>

\* ---------------------------------------------------------------- geometry
Abs(x) == IF x < 0 THEN -x ELSE x

\* floor(a * n / d) for d > 0, n >= 0, computed in two halves so that no
\* intermediate product leaves the 32-bit range.
MulDiv(a, n, d) ==
  LET h == a \div 1000
      l == a % 1000
      q == (n * h) \div d
      r == (n * h) % d
  IN q * 1000 + (r * 1000 + n * l) \div d

\* haversine_m on a meridian is R * |dphi|: 111.195 m per 1e-3 degree, taken
\* as 111 mm per 1e-6 degree and rounded down to whole metres.
haversine_m(a, b) == (Abs(a - b) * 111) \div 1000

RECURSIVE _path_cumdist_m(_)
\* cd[1] = 0 and cd[i] = cd[i-1] + haversine_m(path[i-1], path[i])
_path_cumdist_m(p) ==
  IF Len(p) <= 1 THEN <<0>>
  ELSE LET front == SubSeq(p, 1, Len(p) - 1)
           cd == _path_cumdist_m(front)
       IN Append(cd, cd[Len(cd)] + haversine_m(p[Len(p) - 1], p[Len(p)]))

\* The point of segment [a, b] nearest to p: a + t * (b - a), t clamped to [0, 1].
Project(p, a, b) ==
  IF a = b THEN a
  ELSE IF a < b THEN Max(a, Min(b, p))
  ELSE Max(b, Min(a, p))

point_to_segment_distance_m(p, a, b) == haversine_m(p, Project(p, a, b))

RECURSIVE MinOver(_, _, _)
\* the loop of min_distance_to_path_m from segment i on, dmin so far
MinOver(p, pth, i) ==
  IF i >= Len(pth) THEN 2000000000
  ELSE Min(point_to_segment_distance_m(p, pth[i], pth[i+1]), MinOver(p, pth, i + 1))

min_distance_to_path_m(p, pth) == MinOver(p, pth, 1)

\* The first i in lo..Len(cd) with scale * cd[i] >= target (0 when none).
RECURSIVE FirstAtLeast(_, _, _, _)
FirstAtLeast(cd, scale, target, i) ==
  IF i > Len(cd) THEN 0
  ELSE IF scale * cd[i] >= target THEN i
  ELSE FirstAtLeast(cd, scale, target, i + 1)

\* The interpolation shared by path_midpoint and point_at_distance_m: the point
\* of pth at arc length num/den, located in the first segment whose end lies at
\* or beyond it. tiny is 1e-9 m in the unit of cd ("if seg_len <= 1e-9").
InterpolateAlong(pth, cd, num, den, tiny) ==
  LET i == FirstAtLeast(cd, den, num, 2) IN
    IF i = 0 THEN pth[Len(pth)]
    ELSE LET seg_len == cd[i] - cd[i-1] IN
         IF seg_len <= tiny THEN pth[i]
         ELSE pth[i-1] + MulDiv(pth[i] - pth[i-1], num - den * cd[i-1], den * seg_len)

\* the middle point of the list, whatever the lengths of the segments
MidpointAlong_ByIndex(pth, cd, tiny) == IF pth = <<>> THEN 0 ELSE pth[(Len(pth) \div 2) + 1]

\* path_midpoint over the cumulative distances cd of pth
MidpointAlong(pth, cd, tiny) ==
  IF pth = <<>> THEN 0
  ELSE IF Len(pth) < 2 THEN pth[1]
  ELSE LET total == cd[Len(cd)]
       IN IF total <= tiny THEN pth[(Len(pth) \div 2) + 1]
          ELSE InterpolateAlong(pth, cd, total, 2, tiny)

\* point_at_distance_m over the cumulative distances cd of pth, s = num/den
PointAlong(pth, cd, num, den, tiny) ==
  IF pth = <<>> THEN 0
  ELSE IF Len(pth) < 2 THEN pth[1]
  ELSE LET total == cd[Len(cd)]
       IN IF total <= tiny THEN pth[1]
          ELSE IF num <= 0 THEN pth[1]
          ELSE IF num >= den * total THEN pth[Len(pth)]
          ELSE InterpolateAlong(pth, cd, num, den, tiny)

\* Distances in whole metres: 1e-9 m is below the unit.
path_midpoint(pth) == MidpointAlong(pth, _path_cumdist_m(pth), 0)

point_at_distance_m(pth, s) == PointAlong(pth, _path_cumdist_m(pth), s, 1, 0)

RECURSIVE BestProjection(_, _, _, _, _)
\* the loop of path_fraction_at_point: [d, s] of the segment with the least
\* distance d, the first such segment winning ("if d < best_d")
BestProjection(p, pth, cd, i, best) ==
  IF i >= Len(pth) THEN best
  ELSE LET c == Project(p, pth[i], pth[i+1])
           d == haversine_m(p, c)
           s_here == cd[i] + haversine_m(pth[i], c)
       IN BestProjection(p, pth, cd, i + 1,
                         IF d < best.d THEN [d |-> d, s |-> s_here] ELSE best)

\* path_fraction_at_point as the exact fraction num/den (0.5 is 1/2)
path_fraction_at_point(p, pth) ==
  IF Len(pth) < 2 THEN [num |-> 1, den |-> 2]
  ELSE LET cd == _path_cumdist_m(pth)
           total == cd[Len(cd)]
       IN IF total <= 0 THEN [num |-> 1, den |-> 2]
          ELSE LET b == BestProjection(p, pth, cd, 1, [d |-> 2000000000, s |-> -1])
               IN IF b.s < 0 THEN [num |-> 1, den |-> 2]
                  ELSE [num |-> Max(0, Min(total, b.s)), den |-> total]

\* round(x, 5) and the "%.5f" of the cache key: to the nearest 1e-5 degree.
\* (No input of the model lies exactly halfway.)
Round5(x) == ((x + 5) \div 10) * 10

\* ------------------------------------------------------------------ sorting
RECURSIVE InsertAsc(_, _)
\* x put into s (ascending by distance_to_path_m) behind its equals
InsertAsc(s, x) ==
  IF s = <<>> THEN <<x>>
  ELSE IF Head(s).distance_to_path_m <= x.distance_to_path_m
       THEN <<Head(s)>> \o InsertAsc(Tail(s), x)
       ELSE <<x>> \o s

RECURSIVE SortAsc(_)
\* out.sort(key=distance_to_path_m): stable, ascending
SortAsc(s) ==
  IF s = <<>> THEN <<>>
  ELSE InsertAsc(SortAsc(SubSeq(s, 1, Len(s) - 1)), s[Len(s)])

RECURSIVE InsertDesc(_, _)
\* x put into s (descending by total_score) behind its equals
InsertDesc(s, x) ==
  IF s = <<>> THEN <<x>>
  ELSE IF Head(s).score.total_score >= x.score.total_score
       THEN <<Head(s)>> \o InsertDesc(Tail(s), x)
       ELSE <<x>> \o s

RECURSIVE SortDesc(_)
\* list.sort(key=total_score, reverse=True): stable, descending
SortDesc(s) ==
  IF s = <<>> THEN <<>>
  ELSE InsertDesc(SortDesc(SubSeq(s, 1, Len(s) - 1)), s[Len(s)])

\* ----------------------------------------------------------- fallback store
\* SEARCH_RADIUS_M = 200000
SEARCH_RADIUS_M == 200000

FallbackKeys == {"asphalt_plants", "waste_sites", "rubber_recycling", "rubber_production"}

\* "empty" of _load_fallback_facilities
EmptyFallback == [k \in FallbackKeys |-> <<>>]

\* An entry of the fallback file; ok is FALSE when float() rejects its lat or lon.
Fb(name, lat, ok) == [name |-> name, lat |-> lat, ok |-> ok]

\* The fallback file as the run may find it: missing, not parseable, or a dataset.
FallbackFiles ==
  { [exists |-> FALSE, parses |-> FALSE, data |-> EmptyFallback],
    [exists |-> TRUE, parses |-> FALSE, data |-> EmptyFallback],
    [exists |-> TRUE, parses |-> TRUE,
     data |-> [asphalt_plants |-> <<Fb("A1", 1000000, TRUE), Fb("A2", -2000000, TRUE),
                                   Fb("A3", 200000, TRUE)>>,
               waste_sites |-> <<Fb("W1", 400000, TRUE)>>,
               rubber_recycling |-> <<Fb("R1", 500000, TRUE), Fb("R2", 0, FALSE)>>,
               rubber_production |-> <<Fb("P1", -100000, TRUE), Fb("P2", -1801802, TRUE)>>]] }

\* _load_fallback_facilities: the entries float() accepts, or empty categories
_load_fallback_facilities(file) ==
  IF ~file.exists \/ ~file.parses THEN EmptyFallback
  ELSE [k \in FallbackKeys |->
          LET Safe(it) == it.ok
              kept == SelectSeq(file.data[k], Safe)
          IN [i \in 1..Len(kept) |-> [name |-> kept[i].name, lat |-> kept[i].lat]]]

\* the radius itself left out
WithinRadius_Strict(d) == d < SEARCH_RADIUS_M

\* "if d <= SEARCH_RADIUS_M"
WithinRadius(d) == d <= SEARCH_RADIUS_M

\* analyze_path._annotate_and_filter
_annotate_and_filter(items, kind, pth) ==
  LET ann == [i \in 1..Len(items) |->
                [name |-> items[i].name, lat |-> items[i].lat, type |-> kind,
                 distance_to_path_m |-> min_distance_to_path_m(items[i].lat, pth)]]
      Near(it) == WithinRadius(it.distance_to_path_m)
  IN SortAsc(SelectSeq(ann, Near))

\* the fallback list used whatever OSM returned
GateOwn_Always(has_osm, all) == all

\* "fallback_asphalt = [] if has_osm_asphalt else _fb_asphalt_all", and likewise
\* for rubber recycling
GateOwn(has_osm, all) == IF has_osm THEN <<>> ELSE all

\* "if not (has_osm_asphalt and has_osm_rubber)"
GateBoth_And(has_osm_asphalt, has_osm_rubber, all) ==
  IF ~(has_osm_asphalt /\ has_osm_rubber) THEN all ELSE <<>>

\* "if not (has_osm_asphalt or has_osm_rubber)": waste and rubber production
GateBoth(has_osm_asphalt, has_osm_rubber, all) ==
  IF ~(has_osm_asphalt \/ has_osm_rubber) THEN all ELSE <<>>

\* The four gated fallback lists of analyze_path.
GatedFallback(loaded, asphalt, rubbers, pth) ==
  LET has_osm_asphalt == Len(asphalt) > 0
      has_osm_rubber == Len(rubbers) > 0
  IN [fallback_asphalt |->
        GateOwn(has_osm_asphalt,
                _annotate_and_filter(loaded["asphalt_plants"], "fallback_asphalt", pth)),
      fallback_waste |->
        GateBoth(has_osm_asphalt, has_osm_rubber,
                 _annotate_and_filter(loaded["waste_sites"], "fallback_waste", pth)),
      fallback_rubber_recycling |->
        GateOwn(has_osm_rubber,
                _annotate_and_filter(loaded["rubber_recycling"], "fallback_rubber_recycling", pth)),
      fallback_rubber_production |->
        GateBoth(has_osm_asphalt, has_osm_rubber,
                 _annotate_and_filter(loaded["rubber_production"], "fallback_rubber_production", pth))]

NoFallback ==
  [fallback_asphalt |-> <<>>, fallback_waste |-> <<>>,
   fallback_rubber_recycling |-> <<>>, fallback_rubber_production |-> <<>>]

\* ------------------------------------------------------------ land use, density
\* LANDUSE_SCORES, in hundredths
LANDUSE_SCORES ==
  [industrial |-> 100, brownfield |-> 90, construction |-> 80, greenfield |-> 75,
   quarry |-> 70, landfill |-> 70, meadow |-> 60, grass |-> 60, farmland |-> 45,
   commercial |-> 35, retail |-> 25, forest |-> 20, residential |-> 0,
   military |-> 0, cemetery |-> 0, reservoir |-> 0]

\* str.lower() on the tags the model draws
Lower(tag) == IF tag = "Industrial" THEN "industrial" ELSE tag

\* landuse_near returning None
NoLanduse == [found |-> FALSE, tag |-> ""]

RECURSIVE NearestLanduse(_, _, _)
\* the loop of landuse_near over data["elements"]: best and best_d so far
NearestLanduse(els, point, best) ==
  IF els = <<>> THEN best.info
  ELSE LET el == Head(els)
           d == haversine_m(point, point + el.off)
       IN IF el.tag = "" \/ ~el.located THEN NearestLanduse(Tail(els), point, best)
          ELSE IF d < best.d
               THEN NearestLanduse(Tail(els), point,
                                   [d |-> d, info |-> [found |-> TRUE, tag |-> el.tag]])
               ELSE NearestLanduse(Tail(els), point, best)

\* landuse_near(point, 250.0) given how its overpass_post call ended:
\* "except Exception: return None"
landuse_near(out, point) ==
  IF out.kind = "raise" THEN NoLanduse
  ELSE NearestLanduse(out.resp, point, [d |-> 2000000000, info |-> NoLanduse])

\* (0.5, None)
Neutral == [score |-> 50, label |-> "None"]

\* the result for "no land use found" taken as unsuitable instead of neutral
LanduseResult_Zero(info) ==
  IF ~info.found \/ info.tag = "" THEN [score |-> 0, label |-> "None"]
  ELSE [score |-> IF Lower(info.tag) \in DOMAIN LANDUSE_SCORES
                  THEN LANDUSE_SCORES[Lower(info.tag)] ELSE 50,
        label |-> Lower(info.tag)]

\* landuse_score behind the cache: the result for what landuse_near returned
LanduseResult(info) ==
  IF ~info.found \/ info.tag = "" THEN Neutral
  ELSE LET tag == Lower(info.tag) IN
       [score |-> IF tag \in DOMAIN LANDUSE_SCORES THEN LANDUSE_SCORES[tag] ELSE 50,
        label |-> tag]

\* key = f"{point[0]:.5f},{point[1]:.5f}"
CacheKey(point) == Round5(point)

\* "_LANDUSE_CACHE = {key: res}": the cache rebuilt on every write
CacheWrite_Reset(c, key, res) == (key :> res)

\* the neutral result returned without being stored
CacheWrite_SkipNeutral(c, key, res) == IF res = Neutral THEN c ELSE (key :> res) @@ c

\* "_LANDUSE_CACHE[key] = res"
CacheWrite(c, key, res) == (key :> res) @@ c

\* "except Exception: return 0": an undetermined density counted as open land
buildings_count_within_Zero(out) ==
  IF out.kind = "raise" THEN 0 ELSE Len(out.resp)

\* buildings_count_within(point, 120.0) given how its overpass_post call ended
buildings_count_within(out) ==
  IF out.kind = "raise" THEN 3 ELSE Len(out.resp)

\* ----------------------------------------------------------- scoring engine
\* DEFAULT_WEIGHTS, in tenths
DEFAULT_WEIGHTS ==
  [road_proximity |-> 50, midpoint_preference |-> 40, quarry_proximity |-> 20,
   rubber_proximity |-> 10, landuse_preference |-> 30, highway_proximity |-> 25,
   bitumen_source_proximity |-> 10]

\* exp(-k/10) in thousandths for k = 0..50: 1000 multiplied k times by
\* exp(-0.1) = 0.905 and cut to a whole thousandth each time (0 from k = 51 on)
DecayTable ==
  << 1000, 905, 819, 741, 670, 606, 548, 495, 447, 404, 365, 330, 298, 269, 243,
     219, 198, 179, 161, 145, 131, 118, 106, 95, 85, 76, 68, 61, 55, 49, 44, 39,
     35, 31, 28, 25, 22, 19, 17, 15, 13, 11, 9, 8, 7, 6, 5, 4, 3, 2, 1 >>

DecayPow(k) == IF k >= Len(DecayTable) THEN 0 ELSE DecayTable[k + 1]

\* exp_decay in thousandths, the exponent taken in whole tenths
exp_decay(distance_m, tau_m) ==
  IF tau_m <= 0 THEN 0
  ELSE LET k == Max(0, distance_m) \div (tau_m \div 10)
       IN IF k > 100 THEN 0 ELSE DecayPow(k)

RECURSIVE NearestOver(_, _)
NearestOver(cands, point) ==
  IF cands = <<>> THEN 1000000000
  ELSE Min(haversine_m(point, Head(cands).lat), NearestOver(Tail(cands), point))

\* score_candidate.nearest_distance_m: 1e9 for an empty list
nearest_distance_m(cands, point) == NearestOver(cands, point)

\* the density multiplier b_pen, in tenths
\* "if bcnt < 2 ... elif bcnt < 5"
DensityPenalty_Below(bcnt) == IF bcnt < 2 THEN 10 ELSE IF bcnt < 5 THEN 7 ELSE 4

DensityPenalty(bcnt) == IF bcnt <= 2 THEN 10 ELSE IF bcnt <= 5 THEN 7 ELSE 4

\* "if frac < 0.10 or frac > 0.90"
EdgePenalty_Strict(frac) ==
  IF 10 * frac.num < frac.den \/ 10 * frac.num > 9 * frac.den THEN 2 ELSE 10

\* "if frac <= 0.10 or frac >= 0.90: total *= 0.2", the factor in tenths
EdgePenalty(frac) ==
  IF 10 * frac.num <= frac.den \/ 10 * frac.num >= 9 * frac.den THEN 2 ELSE 10

\* weights.get(name, default)
WeightOf(w, name, default) == IF name \in DOMAIN w THEN w[name] ELSE default

RECURSIVE SumPositive(_, _)
\* sum(max(0.0, float(v)) for v in weights.values())
SumPositive(w, names) ==
  IF names = {} THEN 0
  ELSE LET n == CHOOSE x \in names : TRUE
       IN Max(0, w[n]) + SumPositive(w, names \ {n})

\* the weighted sum with a ready-mix term
BaseScore_WithReadyMix(w, sc) ==
    WeightOf(w, "road_proximity", 50) * sc.near_road
  + WeightOf(w, "midpoint_preference", 40) * sc.midpoint
  + WeightOf(w, "quarry_proximity", 20) * sc.quarry
  + WeightOf(w, "rubber_proximity", 10) * sc.rubber
  + WeightOf(w, "landuse_preference", 30) * (sc.landuse_score * 10)
  + WeightOf(w, "highway_proximity", 25) * sc.highway
  + WeightOf(w, "ready_mix_proximity", 10) * sc.ready_mix
  + WeightOf(w, "bitumen_source_proximity", 10) * sc.bitumen

\* base_score: the weighted sum (ready_mix is left out), in units of 1e-4
BaseScore(w, sc) ==
    WeightOf(w, "road_proximity", 50) * sc.near_road
  + WeightOf(w, "midpoint_preference", 40) * sc.midpoint
  + WeightOf(w, "quarry_proximity", 20) * sc.quarry
  + WeightOf(w, "rubber_proximity", 10) * sc.rubber
  + WeightOf(w, "landuse_preference", 30) * (sc.landuse_score * 10)
  + WeightOf(w, "highway_proximity", 25) * sc.highway
  + WeightOf(w, "bitumen_source_proximity", 10) * sc.bitumen

\* total without the land-use clamp
TotalScore_NoClamp(w, sc, frac) ==
  BaseScore(w, sc) * DensityPenalty(sc.buildings_count) * EdgePenalty(frac)

\* total, in units of 1e-6
TotalScore(w, sc, frac) ==
  IF sc.landuse_score <= 5 THEN 0
  ELSE BaseScore(w, sc) * DensityPenalty(sc.buildings_count) * EdgePenalty(frac)

\* total / wsum without the clamp to [0, 1]
TotalNorm_Unclamped(w, total) ==
  LET s == SumPositive(w, DOMAIN w)
      wsum == IF s = 0 THEN 10 ELSE s
  IN total \div (wsum * 100)

\* total_norm in thousandths: max(0, min(1, total / wsum)), wsum = sum or 1.0
TotalNorm(w, total) ==
  LET s == SumPositive(w, DOMAIN w)
      wsum == IF s = 0 THEN 10 ELSE s
  IN Max(0, Min(1000, total \div (wsum * 100)))

\* score_candidate, given what landuse_score and buildings_count_within returned
score_candidate(point, pth, quarries, rubbers, highways, ready_mix, bitumen_sources, w, lures, bcnt) ==
  LET mid == path_midpoint(pth)
      sc == [near_road |-> exp_decay(min_distance_to_path_m(point, pth), 1500),
             midpoint |-> exp_decay(haversine_m(point, mid), 25000),
             quarry |-> exp_decay(nearest_distance_m(quarries, point), 50000),
             rubber |-> exp_decay(nearest_distance_m(rubbers, point), 50000),
             highway |-> exp_decay(nearest_distance_m(highways, point), 8000),
             ready_mix |-> exp_decay(nearest_distance_m(ready_mix, point), 50000),
             bitumen |-> exp_decay(nearest_distance_m(bitumen_sources, point), 80000),
             landuse_score |-> lures.score,
             landuse_label |-> lures.label,
             buildings_count |-> bcnt]
      total == TotalScore(w, sc, path_fraction_at_point(point, pth))
  IN [point |-> point, scores |-> sc, total_score |-> total,
      total_score_norm |-> TotalNorm(w, total)]

\* ------------------------------------------------------------- analyze_path
\* SEG_M = 200_000.0 and MID_M = 100_000.0
SEG_M == 200000
MID_M == 100000

\* The paths analyze_path is called with: points on the meridian, 1e-6 degree.
Paths == { <<>>, <<0>>, <<0, 314000>>, <<0, 1000000, 2000000>> }

\* Paths for the proposal step: 34.9 km, 444 km, and 400 km out and back (200 km
\* each way, so that the points at 100 km and at 300 km coincide).
LongPaths == { <<0, 314000>>, <<0, 4000000>>, <<0, 1801802, 0>> }

\* The top_k arguments analyze_path is called with.
TopKs == {1, 5}

\* The weights arguments analyze_path is called with.
WeightSets == {DEFAULT_WEIGHTS}

\* How the map step can go: folium was not importable (the module global folium
\* is None), or the map is built and os.makedirs raises, m.save raises, or the
\* file is written.
MapOutcomes == {"no_folium", "saved", "makedirs_error", "save_error"}

OSError == [type |-> "OSError", attempt |-> -1, url |-> -1]

NoLive == [k \in 1..6 |-> <<>>]

\* the loop of overpass_query over data["elements"]: elements without
\* coordinates are dropped
Facilities(resp, kind) ==
  LET Located(el) == el.located
      kept == SelectSeq(resp, Located)
  IN [i \in 1..Len(kept) |-> [id |-> kept[i].id, lat |-> kept[i].lat, type |-> kind]]

RECURSIVE Propose(_, _, _, _, _)
\* "for k in range(num_full)": one point per full segment, duplicates skipped
Propose(pth, k, num_full, used, acc) ==
  IF k >= num_full THEN acc
  ELSE LET pt == point_at_distance_m(pth, k * SEG_M + MID_M)
           key == Round5(pt)
       IN IF key \in used THEN Propose(pth, k + 1, num_full, used, acc)
          ELSE Propose(pth, k + 1, num_full, used \cup {key}, Append(acc, pt))

\* one point per started segment: "num_full = int(total // SEG_M) + 1"
ProposedPoints_Started(pth) ==
  LET cd == _path_cumdist_m(pth)
      total == cd[Len(cd)]
  IN IF total >= SEG_M THEN Propose(pth, 0, total \div SEG_M + 1, {}, <<>>) ELSE <<>>

\* proposed_points of analyze_path
ProposedPoints(pth) ==
  LET cd == _path_cumdist_m(pth)
      total == cd[Len(cd)]
  IN IF total >= SEG_M THEN Propose(pth, 0, total \div SEG_M, {}, <<>>) ELSE <<>>

\* s[-k:]: the last k instead of the first k
Slice_Tail(s, k) == SubSeq(s, Max(1, Len(s) - k + 1), Len(s))

\* Python's s[:k]
Slice(s, k) ==
  IF k >= 0 THEN SubSeq(s, 1, Min(k, Len(s))) ELSE SubSeq(s, 1, Max(0, Len(s) + k))

\* "if not path": a single point passes
PathTooShort_EmptyOnly(pth) == Len(pth) < 1

\* "if not path or len(path) < 2: raise ValueError"
PathTooShort(pth) == Len(pth) < 2

\* analyze_path is called: the path check, then the first overpass_query.
AnalyzeCallWith(paths, ks) ==
  /\ pc = "idle"
  /\ postPc = "idle"
  /\ \E pth \in paths, k \in ks, w \in WeightSets :
       /\ path' = pth
       /\ top_k' = k
       /\ weights' = w
       /\ IF PathTooShort(pth)
          THEN /\ pc' = "raised"
               /\ raisedExc' = ValueError
               /\ UNCHANGED postVars
          ELSE /\ pc' = "query"
               /\ raisedExc' = NoExc
               /\ PostEnter("overpass_query", NoneArg)
  /\ kindIdx' = 1
  /\ queried' = FALSE
  /\ failedKeys' = {}
  /\ UNCHANGED <<envVars, auxVars, live, fb, answered, luHow, bHow, existing_top, fallback, stage, candIdx, lu, existing,
                 proposed_points, proposed, cache, map_path, mapOutcome>>

AnalyzeCall == AnalyzeCallWith(Paths, TopKs)

\* analyze_path called on a long path, keeping one existing facility
AnalyzeLong == AnalyzeCallWith(LongPaths, {1})

\* overpass_query with "data = overpass_post(q)" inside a try that turns a
\* failure into no elements
Escapes_Swallowed(out) == FALSE

\* "data = overpass_post(q)" in overpass_query stands in no try: an exception of
\* overpass_post leaves overpass_query, and analyze_path does not catch it either.
Escapes(out) == out.kind = "raise"

\* overpass_post raised inside overpass_query: nothing catches it.
QueryRaise ==
  /\ pc = "query"
  /\ postPc = "done"
  /\ Escapes(postOut)
  /\ pc' = "raised"
  /\ raisedExc' = postOut.exc
  /\ UNCHANGED <<envVars, auxVars, postVars, path, top_k, kindIdx, live, fb, answered, luHow,
                 bHow, existing_top, fallback, weights, stage, candIdx, lu, existing, proposed_points,
                 proposed, cache, map_path, mapOutcome, queried, failedKeys>>

\* overpass_query returns its facilities; the next kind is queried, or, after the
\* sixth, the fallback file is loaded, annotated and gated.
QueryReturn ==
  /\ pc = "query"
  /\ postPc = "done"
  /\ ~Escapes(postOut)
  /\ live' = [live EXCEPT ![kindIdx] = Facilities(postOut.resp, Kinds[kindIdx])]
  /\ answered' = answered + 1
  /\ IF kindIdx < 6
     THEN /\ kindIdx' = kindIdx + 1
          /\ PostEnter("overpass_query", NoneArg)
          /\ UNCHANGED <<pc, fb, fallback, stage, candIdx>>
     ELSE /\ \E file \in FallbackFiles : fb' = _load_fallback_facilities(file)
          /\ fallback' = GatedFallback(fb', live'[1], live'[3], path)
          /\ pc' = "score"
          /\ stage' = "existing"
          /\ candIdx' = 1
          /\ PostLeave
          /\ UNCHANGED kindIdx
  /\ UNCHANGED <<envVars, auxVars, path, top_k, weights, luHow, bHow, existing_top, lu, existing, proposed_points,
                 proposed, cache, map_path, raisedExc, mapOutcome, queried, failedKeys>>

\* "for a in asphalt + fallback_asphalt": the fallback plants scored as well
Candidates_WithFallback ==
  IF stage = "existing"
  THEN [i \in 1..Len(live[1]) |-> live[1][i].lat]
         \o [i \in 1..Len(fallback.fallback_asphalt) |-> fallback.fallback_asphalt[i].lat]
  ELSE proposed_points

\* The points the running scoring loop iterates over.
Candidates ==
  IF stage = "existing" THEN [i \in 1..Len(live[1]) |-> live[1][i].lat]
  ELSE proposed_points

\* The head of a scoring loop: the next candidate enters score_candidate up to
\* its first HTTP request (landuse_score on a cache miss, else
\* buildings_count_within); after the last candidate the list is sorted and the
\* next stage begins.
ScoreNext ==
  /\ pc = "score"
  /\ IF candIdx <= Len(Candidates)
     THEN /\ IF CacheKey(Candidates[candIdx]) \in DOMAIN cache
             THEN /\ lu' = cache[CacheKey(Candidates[candIdx])]
                  /\ luHow' = "hit"
                  /\ PostEnter("buildings_count_within", Arg(HelperRetries))
                  /\ pc' = "buildings"
             ELSE /\ PostEnter("landuse_near", Arg(HelperRetries))
                  /\ pc' = "landuse"
                  /\ UNCHANGED <<lu, luHow>>
          /\ UNCHANGED <<stage, candIdx, existing, existing_top, proposed_points, proposed>>
     ELSE IF stage = "existing"
     THEN /\ existing' = SortDesc(existing)
          /\ proposed_points' = ProposedPoints(path)
          /\ stage' = "proposed"
          /\ candIdx' = 1
          /\ UNCHANGED <<postVars, pc, lu, luHow, proposed, existing_top>>
     ELSE /\ proposed' = SortDesc(proposed)
          /\ existing_top' = Slice(existing, top_k)
          /\ pc' = "map"
          /\ UNCHANGED <<postVars, stage, candIdx, lu, luHow, proposed_points, existing>>
  /\ bHow' = "none"
  /\ UNCHANGED <<envVars, auxVars, path, top_k, kindIdx, live, fb, answered, fallback, weights,
                 cache, map_path, raisedExc, mapOutcome, queried, failedKeys>>

\* landuse_near's request ended: landuse_score stores and returns its result,
\* and score_candidate goes on to buildings_count_within.
LanduseDone ==
  /\ pc = "landuse"
  /\ postPc = "done"
  /\ LET point == Candidates[candIdx]
         res == LanduseResult(landuse_near(postOut, point))
     IN /\ cache' = CacheWrite(cache, CacheKey(point), res)
        /\ lu' = res
  /\ luHow' = IF postOut.kind = "raise" THEN "failed" ELSE "answered"
  /\ failedKeys' = IF postOut.kind = "raise"
                   THEN failedKeys \cup {CacheKey(Candidates[candIdx])} ELSE failedKeys
  /\ PostEnter("buildings_count_within", Arg(HelperRetries))
  /\ pc' = "buildings"
  /\ UNCHANGED <<envVars, auxVars, path, top_k, kindIdx, live, fb, answered, fallback, weights,
                 stage, candIdx, existing, existing_top, bHow, proposed_points, proposed,
                 map_path, raisedExc, mapOutcome, queried>>

\* buildings_count_within's request ended: the candidate is scored and appended.
BuildingsDone ==
  /\ pc = "buildings"
  /\ postPc = "done"
  /\ LET point == Candidates[candIdx]
         sc == score_candidate(point, path, live[2], live[3], live[4], live[5], live[6],
                               weights, lu, buildings_count_within(postOut))
     IN IF stage = "existing"
        THEN /\ existing' = Append(existing, [id |-> live[1][candIdx].id, lat |-> point,
                                              type |-> "asphalt", score |-> sc])
             /\ UNCHANGED proposed
        ELSE /\ proposed' = Append(proposed, [id |-> 0, lat |-> point,
                                              type |-> "proposed", score |-> sc])
             /\ UNCHANGED existing
  /\ candIdx' = candIdx + 1
  /\ pc' = "score"
  /\ luHow' = "none"
  /\ bHow' = IF postOut.kind = "raise" THEN "failed" ELSE "answered"
  /\ PostLeave
  /\ UNCHANGED <<envVars, auxVars, path, top_k, kindIdx, live, fb, answered, fallback, weights,
                 existing_top, stage, lu, proposed_points, cache, map_path, raisedExc, mapOutcome,
                 queried, failedKeys>>

\* "if folium is not None": the map is built, runs/ is created and the map saved;
\* only m.save is inside a try.
Render ==
  /\ pc = "map"
  /\ \E outcome \in MapOutcomes :
       /\ mapOutcome' = outcome
       /\ IF outcome = "no_folium"
          THEN /\ map_path' = "None"
               /\ pc' = "returned"
               /\ UNCHANGED raisedExc
          ELSE IF outcome = "makedirs_error"
          THEN /\ pc' = "raised"
               /\ raisedExc' = OSError
               /\ UNCHANGED map_path
          ELSE /\ map_path' = IF outcome = "saved" THEN "planner_map.html" ELSE "None"
               /\ pc' = "returned"
               /\ UNCHANGED raisedExc
  /\ UNCHANGED <<envVars, auxVars, postVars, path, top_k, kindIdx, live, fb, answered, luHow,
                 bHow, existing_top, fallback, weights, stage, candIdx, lu, existing, proposed_points,
                 proposed, cache, queried, failedKeys>>

\* ------------------------------------------------------------ specifications
InitPostFrame ==
  /\ postPc = "idle"
  /\ caller = "none"
  /\ rts = 0
  /\ backoff = <<>>
  /\ attempt = 0
  /\ urlIdx = 0
  /\ last_exc = NoExc
  /\ attemptLog = <<>>
  /\ sleepLog = <<>>
  /\ postOut = NoOut

InitAnalyzeFrame ==
  /\ pc = "idle"
  /\ path = <<>>
  /\ top_k = 5
  /\ weights = DEFAULT_WEIGHTS
  /\ kindIdx = 1
  /\ live = NoLive
  /\ fb = EmptyFallback
  /\ answered = 0
  /\ luHow = "none"
  /\ bHow = "none"
  /\ fallback = NoFallback
  /\ stage = "existing"
  /\ candIdx = 1
  /\ lu = Neutral
  /\ existing = <<>>
  /\ existing_top = <<>>
  /\ proposed_points = <<>>
  /\ proposed = <<>>
  /\ cache = <<>>
  /\ map_path = "None"
  /\ raisedExc = NoExc
  /\ mapOutcome = "none"
  /\ queried = FALSE
  /\ failedKeys = {}

Threads == {1, 2}

InitRaceFrame ==
  /\ lsPc = [t \in Threads |-> "idle"]
  /\ lsPoint = [t \in Threads |-> 0]
  /\ lsMissed = [t \in Threads |-> FALSE]
  /\ lsInfo = [t \in Threads |-> NoLanduse]
  /\ lsRes = [t \in Threads |-> Neutral]

\* no call made, no value returned
NoCall == [called |-> FALSE]
NoFrac == [num |-> -1, den |-> 1]

InitScoreFrame ==
  /\ scPc = "idle"
  /\ scArgs = NoCall
  /\ scFrac = NoFrac
  /\ scOut = NoCall
  /\ scArgs2 = NoCall
  /\ scOut2 = NoCall
  /\ scFrac2 = NoFrac
  /\ scTotal2 = 0

InitSliceFrame ==
  /\ slPc = "idle"
  /\ slArgs = NoCall
  /\ slOut = <<>>
  /\ slOut2 = <<>>

InitMidFrame ==
  /\ mdPc = "idle"
  /\ mdPath = <<>>
  /\ mdMid = 0
  /\ mdS = [num |-> 0, den |-> 1]
  /\ mdAt = 0

InitAux == InitRaceFrame /\ InitScoreFrame /\ InitSliceFrame /\ InitMidFrame

\* The gateway alone, under every environment, called with any retries argument.
InitPost ==
  /\ OSM_RETRIES \in RetriesEnvValues
  /\ OSM_BACKOFF \in BackoffEnvValues
  /\ InitPostFrame
  /\ InitAnalyzeFrame
  /\ InitAux

NextPost ==
  \/ PostCall
  \/ PostAttemptOk
  \/ PostAttemptFail
  \/ PostBackoff
  \/ PostExhausted
  \/ PostFinish

SpecPost == InitPost /\ [][NextPost]_vars

\* Environments of the analysis: default and explicit retries, a usable and a
\* negative backoff schedule, folium installed or not.
AnalysisEnvs ==
  { <<Unset, [set |-> FALSE, parts |-> <<>>]>>,
    <<Num(0), [set |-> TRUE, parts |-> <<Tok(5)>>]>>,
    <<Num(-1), [set |-> FALSE, parts |-> <<>>]>>,
    <<Unset, [set |-> TRUE, parts |-> <<Tok(-1)>>]>> }

Init ==
  /\ \E e \in AnalysisEnvs :
       /\ OSM_RETRIES = e[1]
       /\ OSM_BACKOFF = e[2]
  /\ InitPostFrame
  /\ InitAnalyzeFrame
  /\ InitAux

Next ==
  \/ AnalyzeCall
  \/ PostAttemptOk
  \/ PostAttemptFail
  \/ PostBackoff
  \/ PostExhausted
  \/ QueryRaise
  \/ QueryReturn
  \/ ScoreNext
  \/ LanduseDone
  \/ BuildingsDone
  \/ Render

Spec == Init /\ [][Next]_vars

\* The analysis of the long paths, under the default environment.
InitLong ==
  /\ OSM_RETRIES = Unset
  /\ OSM_BACKOFF = [set |-> FALSE, parts |-> <<>>]
  /\ InitPostFrame
  /\ InitAnalyzeFrame
  /\ InitAux

NextLong ==
  \/ AnalyzeLong
  \/ PostAttemptOk
  \/ PostAttemptFail
  \/ PostBackoff
  \/ PostExhausted
  \/ QueryRaise
  \/ QueryReturn
  \/ ScoreNext
  \/ LanduseDone
  \/ BuildingsDone
  \/ Render

SpecLong == InitLong /\ [][NextLong]_vars

\* ------------------------------------- landuse_score called from two threads
\* The analysis variables other than the module global _LANDUSE_CACHE.
frameVars == <<pc, path, top_k, kindIdx, live, fb, answered, luHow, bHow, fallback, weights, stage, candIdx, lu, existing, existing_top, proposed_points, proposed, map_path, raisedExc, mapOutcome, queried, failedKeys>>

\* The points the two threads ask about: two that share a cache key, one apart.
RacePoints == {100001, 100004, 500000}

\* How the overpass_post call of landuse_near can end: any response, or the
\* exception of its last attempt.
LanduseOutcomes ==
  {Returned(r) : r \in LanduseResponses} \cup {Raised(RequestException(HelperRetries, MirrorCount - 1))}

\* landuse_score up to the cache test: "if key in _LANDUSE_CACHE: return ..."
LsCall(t) ==
  /\ lsPc[t] = "idle"
  /\ \E point \in RacePoints :
       /\ lsPoint' = [lsPoint EXCEPT ![t] = point]
       /\ IF CacheKey(point) \in DOMAIN cache
          THEN /\ lsRes' = [lsRes EXCEPT ![t] = cache[CacheKey(point)]]
               /\ lsPc' = [lsPc EXCEPT ![t] = "done"]
               /\ UNCHANGED lsMissed
          ELSE /\ lsPc' = [lsPc EXCEPT ![t] = "query"]
               /\ lsMissed' = [lsMissed EXCEPT ![t] = TRUE]
               /\ UNCHANGED lsRes
  /\ UNCHANGED <<envVars, postVars, frameVars, midVars, scoreVars, sliceVars, cache, lsInfo>>

\* "info = landuse_near(point, 250.0)": the external query, outside any lock
LsQuery(t) ==
  /\ lsPc[t] = "query"
  /\ \E out \in LanduseOutcomes :
       lsInfo' = [lsInfo EXCEPT ![t] = landuse_near(out, lsPoint[t])]
  /\ lsPc' = [lsPc EXCEPT ![t] = "store"]
  /\ UNCHANGED <<envVars, postVars, frameVars, midVars, scoreVars, sliceVars, cache, lsPoint, lsMissed, lsRes>>

\* "_LANDUSE_CACHE[key] = res; return res"
LsStore(t) ==
  /\ lsPc[t] = "store"
  /\ LET res == LanduseResult(lsInfo[t])
     IN /\ cache' = CacheWrite(cache, CacheKey(lsPoint[t]), res)
        /\ lsRes' = [lsRes EXCEPT ![t] = res]
  /\ lsPc' = [lsPc EXCEPT ![t] = "done"]
  /\ UNCHANGED <<envVars, postVars, frameVars, midVars, scoreVars, sliceVars, lsPoint, lsMissed, lsInfo>>

InitRace ==
  /\ OSM_RETRIES = Unset
  /\ OSM_BACKOFF = [set |-> FALSE, parts |-> <<>>]
  /\ InitPostFrame
  /\ InitAnalyzeFrame
  /\ InitAux

NextRace == \E t \in Threads : LsCall(t) \/ LsQuery(t) \/ LsStore(t)

SpecRace == InitRace /\ [][NextRace]_vars

\* ------------------------------------------- score_candidate called on its own
ScorePath == <<0, 1000000, 2000000>>

\* Candidates near the start of the path, at its middle and near its end.
ScorePoints == {100004, 1000000, 1950000}

Site(i, lat, kind) == [id |-> i, lat |-> lat, type |-> kind]

QuarryLists == { <<>>, <<Site(1, 1000500, "quarry")>> }
ReadyMixLists ==
  { <<>>, <<Site(1, 1000100, "ready_mix")>>, <<Site(2, 1400000, "ready_mix")>> }

\* Weight mappings: the defaults, none, all zero, negative and extra entries,
\* a single small entry.
ScoreWeights ==
  { DEFAULT_WEIGHTS,
    [n \in {} |-> 0],
    [n \in DOMAIN DEFAULT_WEIGHTS |-> 0],
    [road_proximity |-> -50, midpoint_preference |-> -40, bogus |-> 70],
    [road_proximity |-> 1, ready_mix_proximity |-> 1000] }

\* What landuse_score returned to the call.
ScoreLanduse ==
  { Neutral, [score |-> 100, label |-> "industrial"],
    [score |-> 0, label |-> "residential"], [score |-> 45, label |-> "farmland"] }

\* What buildings_count_within returned to the call.
ScoreCounts == {0, 2, 3, 5, 6}

\* Path fractions: edge (0.05, 0.10, 0.90) and interior (0.11, 0.5, 0.89).
Fracs ==
  { [num |-> 1, den |-> 20], [num |-> 1, den |-> 10], [num |-> 9, den |-> 10],
    [num |-> 11, den |-> 100], [num |-> 1, den |-> 2], [num |-> 89, den |-> 100] }

ScoreOf(a) ==
  score_candidate(a.point, a.path, a.quarries, a.rubbers, a.highways, a.ready_mix,
                  a.bitumen_sources, a.weights, a.lu, a.bcnt)

\* score_candidate(point, path, quarries, rubbers, highways, ready_mix,
\* bitumen_sources, weights)
ScoreCall ==
  /\ scPc = "idle"
  /\ \E point \in ScorePoints, q \in QuarryLists, rm \in ReadyMixLists,
        w \in ScoreWeights, l \in ScoreLanduse, b \in ScoreCounts :
       /\ scArgs' = [called |-> TRUE, point |-> point, path |-> ScorePath, quarries |-> q,
                     rubbers |-> <<Site(1, 900000, "rubber")>>,
                     highways |-> <<Site(1, 100100, "highway")>>, ready_mix |-> rm,
                     bitumen_sources |-> <<>>, weights |-> w, lu |-> l, bcnt |-> b]
       /\ scFrac' = path_fraction_at_point(point, ScorePath)
       /\ scOut' = ScoreOf(scArgs')
  /\ scPc' = "scored"
  /\ UNCHANGED <<envVars, postVars, frameVars, midVars, cache, raceVars, sliceVars, scArgs2, scOut2, scFrac2, scTotal2>>

\* The same call again, with another ready_mix list.
ScoreAgain ==
  /\ scPc = "scored"
  /\ scArgs2 = NoCall
  /\ \E rm \in ReadyMixLists :
       /\ scArgs2' = [scArgs EXCEPT !.ready_mix = rm]
       /\ scOut2' = ScoreOf(scArgs2')
  /\ UNCHANGED <<envVars, postVars, frameVars, midVars, cache, raceVars, sliceVars, scPc, scArgs, scFrac, scOut, scFrac2, scTotal2>>

\* Lines 675-685 for a candidate with the same factor scores, land-use score,
\* building count and weights, at another path fraction.
ScoreAtFraction ==
  /\ scPc = "scored"
  /\ scFrac2 = NoFrac
  /\ \E f \in Fracs :
       /\ scFrac2' = f
       /\ scTotal2' = TotalScore(scArgs.weights, scOut.scores, f)
  /\ UNCHANGED <<envVars, postVars, frameVars, midVars, cache, raceVars, sliceVars, scPc, scArgs, scFrac, scOut, scArgs2, scOut2>>

InitScore ==
  /\ OSM_RETRIES = Unset
  /\ OSM_BACKOFF = [set |-> FALSE, parts |-> <<>>]
  /\ InitPostFrame
  /\ InitAnalyzeFrame
  /\ InitAux

NextScore == ScoreCall \/ ScoreAgain \/ ScoreAtFraction

SpecScore == InitScore /\ [][NextScore]_vars

\* ---------------------------------------- slice_path_segment called on its own
\* list(path) where list(reversed(path)) is meant
Reverse_Identity(s) == s

\* list(reversed(path))
Reverse(s) == [i \in 1..Len(s) |-> s[Len(s) + 1 - i]]

RECURSIVE NearestHalf(_, _, _, _)
\* "min(range(len(cd)), key=lambda i: abs(cd[i] - half))": the first index (1-based
\* here) whose cumulative distance is nearest to half the total
NearestHalf(cd, total, i, best) ==
  IF i > Len(cd) THEN best
  ELSE NearestHalf(cd, total, i + 1,
                   IF Abs(2 * cd[i] - total) < Abs(2 * cd[best] - total) THEN i ELSE best)

RECURSIVE WalkBack(_, _, _, _)
\* "while j > 0 and dist < L: dist += ...; j -= 1" (j 1-based here)
WalkBack(pth, j, dist, L) ==
  IF j > 1 /\ dist < L
  THEN WalkBack(pth, j - 1, dist + haversine_m(pth[j], pth[j-1]), L)
  ELSE j

RECURSIVE WalkForward(_, _, _, _)
\* "while j < len(path)-1 and dist < L: dist += ...; j += 1" (j 1-based here)
WalkForward(pth, j, dist, L) ==
  IF j < Len(pth) /\ dist < L
  THEN WalkForward(pth, j + 1, dist + haversine_m(pth[j], pth[j+1]), L)
  ELSE j

\* The reverse walk returning its points in the order walked.
slice_path_segment_WalkOrder(pth, length_m, anchor, direction) ==
  IF Len(pth) < 2 THEN pth
  ELSE LET L == Max(0, length_m)
           whole == IF direction = "forward" THEN pth ELSE Reverse(pth)
           cd == _path_cumdist_m(pth)
           total == cd[Len(cd)]
       IN IF L <= 0 THEN whole
          ELSE IF total <= 0 \/ L >= total THEN whole
          ELSE LET idx == IF anchor = "start" THEN 1
                          ELSE IF anchor = "end" THEN Len(pth)
                          ELSE NearestHalf(cd, total, 1, 1)
               IN IF direction = "reverse"
                  THEN Reverse(SubSeq(pth, WalkBack(pth, idx, 0, L), idx))
                  ELSE SubSeq(pth, idx, WalkForward(pth, idx, 0, L))

\* slice_path_segment, length_m = float(length_km) * 1000
slice_path_segment(pth, length_m, anchor, direction) ==
  IF Len(pth) < 2 THEN pth
  ELSE LET L == Max(0, length_m)
           whole == IF direction = "forward" THEN pth ELSE Reverse(pth)
           cd == _path_cumdist_m(pth)
           total == cd[Len(cd)]
       IN IF L <= 0 THEN whole
          ELSE IF total <= 0 \/ L >= total THEN whole
          ELSE LET idx == IF anchor = "start" THEN 1
                          ELSE IF anchor = "end" THEN Len(pth)
                          ELSE NearestHalf(cd, total, 1, 1)
               IN IF direction = "reverse"
                  THEN SubSeq(pth, WalkBack(pth, idx, 0, L), idx)
                  ELSE SubSeq(pth, idx, WalkForward(pth, idx, 0, L))

\* Paths of 6 x 50 km, of one 111 km segment, and of uneven segments.
SlicePaths ==
  { <<0, 450450, 900900, 1351350, 1801800, 2252250, 2702700>>,
    <<0, 1000000>>,
    <<0, 100000, 1000000, 1100000>> }

\* Target lengths in metres: none, negative, short, the exact length of the
\* one-segment path, and beyond every path.
SliceLengths == {-5000, 0, 30000, 60000, 111000, 120000, 250000, 400000}

Anchors == {"start", "mid", "end"}
Directions == {"forward", "reverse"}

SliceCall ==
  /\ slPc = "idle"
  /\ \E pth \in SlicePaths, len \in SliceLengths, a \in Anchors, d \in Directions :
       /\ slArgs' = [called |-> TRUE, path |-> pth, length_m |-> len, anchor |-> a,
                     direction |-> d]
       /\ slOut' = slice_path_segment(pth, len, a, d)
  /\ slPc' = "done"
  /\ UNCHANGED <<envVars, postVars, frameVars, midVars, cache, raceVars, scoreVars, slOut2>>

Opposite(direction) == IF direction = "forward" THEN "reverse" ELSE "forward"

\* The second call of the GUI's two-way analysis: the same path, length and
\* anchor, the other direction.
SliceOpposite ==
  /\ slPc = "done"
  /\ slOut2' = slice_path_segment(slArgs.path, slArgs.length_m, slArgs.anchor,
                                  Opposite(slArgs.direction))
  /\ slPc' = "both"
  /\ UNCHANGED <<envVars, postVars, frameVars, midVars, cache, raceVars, scoreVars, slArgs, slOut>>

InitSlice ==
  /\ OSM_RETRIES = Unset
  /\ OSM_BACKOFF = [set |-> FALSE, parts |-> <<>>]
  /\ InitPostFrame
  /\ InitAnalyzeFrame
  /\ InitAux

NextSlice == SliceCall \/ SliceOpposite

SpecSlice == InitSlice /\ [][NextSlice]_vars

\* ------------------------------------------- path_midpoint, point_at_distance_m
\* Paths on one meridian with positions, and so distances, in units of 1e-10 m,
\* in which the threshold 1e-9 of lines 152, 161, 182 and 192 is 10.
TINY == 10

\* _path_cumdist_m in that unit
RECURSIVE CumdistFine(_, _)
CumdistFine(pth, i) ==
  IF i > Len(pth) THEN <<>>
  ELSE IF i = 1 THEN <<0>> \o CumdistFine(pth, 2)
  ELSE LET rest == CumdistFine(pth, i + 1)
       IN <<Abs(pth[i] - pth[i-1])>> \o [k \in 1..Len(rest) |-> rest[k] + Abs(pth[i] - pth[i-1])]

\* Paths of one segment, of even and uneven segments, with a repeated point,
\* turning back, of no length, and of a length below 1e-9 m.
MidPaths ==
  { <<0, 1000>>, <<0, 1001>>, <<0, 300, 1000>>, <<0, 500, 500, 1301>>,
    <<0, 700, 400>>, <<100, 100, 900>>, <<0, 400, 400>>, <<5, 5>>, <<0, 4>>,
    <<0, 3, 6, 10>>, <<0, 5, 11>> }

\* Distances asked of point_at_distance_m on a path of length total, in halves:
\* around 0, around half the length, around the length.
MidTargets(total) ==
  { [num |-> k * total + c, den |-> 2] : k \in 0..2, c \in {-2, -1, 0, 1} }

\* path_midpoint(path)
MidpointCall ==
  /\ mdPc = "idle"
  /\ \E pth \in MidPaths :
       /\ mdPath' = pth
       /\ mdMid' = MidpointAlong(pth, CumdistFine(pth, 1), TINY)
  /\ mdPc' = "mid"
  /\ UNCHANGED <<envVars, postVars, frameVars, cache, raceVars, scoreVars, sliceVars, mdS, mdAt>>

\* point_at_distance_m(path, s)
PointAtCall ==
  /\ mdPc = "mid"
  /\ LET cd == CumdistFine(mdPath, 1) IN
       \E s \in MidTargets(cd[Len(cd)]) :
         /\ mdS' = s
         /\ mdAt' = PointAlong(mdPath, cd, s.num, s.den, TINY)
  /\ mdPc' = "at"
  /\ UNCHANGED <<envVars, postVars, frameVars, cache, raceVars, scoreVars, sliceVars, mdPath, mdMid>>

InitMid ==
  /\ OSM_RETRIES = Unset
  /\ OSM_BACKOFF = [set |-> FALSE, parts |-> <<>>]
  /\ InitPostFrame
  /\ InitAnalyzeFrame
  /\ InitAux

NextMid == MidpointCall \/ PointAtCall

SpecMid == InitMid /\ [][NextMid]_vars

\* ------------------------------------------------------------------ claims
\* The retry schedule overpass_post reads from the environment.
Schedule == _env_backoff(OSM_BACKOFF, DefaultBackoff)

\* C1: with a retry count R >= 0, the attempts of one overpass_post call are made
\* in round-major order (the i-th attempt, counted from 0, is round i div M on
\* mirror i mod M); no attempt follows a successful one; the call returns exactly
\* when its last attempt succeeded, and returns that attempt's response; and the
\* call never makes more than (R+1) x M attempts.
C1_RoundMajorFirstSuccess ==
  (postPc # "idle" /\ rts >= 0) =>
    /\ \A i \in 1..Len(attemptLog) :
         /\ attemptLog[i].attempt = (i - 1) \div MirrorCount
         /\ attemptLog[i].url = (i - 1) % MirrorCount
         /\ attemptLog[i].ok => i = Len(attemptLog)
    /\ Len(attemptLog) <= (rts + 1) * MirrorCount
    /\ (postOut.kind = "return") <=>
         (attemptLog # <<>> /\ attemptLog[Len(attemptLog)].ok)
    /\ postOut.kind = "return" => postOut.resp = attemptLog[Len(attemptLog)].resp

\* A call that succeeded in a later round, on a mirror other than the first,
\* with a non-empty response.
C1_Witness ==
  /\ postPc = "done"
  /\ postOut.kind = "return"
  /\ postOut.resp # <<>>
  /\ rts >= 1
  /\ Len(attemptLog) > MirrorCount + 1

\* C2: overpass_post (retry count R >= 0) raises only after all (R+1) x M attempts
\* have been made and have failed, and what it raises is the exception of the
\* last attempt (last mirror of the last round).
C2_RaisesOnlyWhenExhausted ==
  (postPc = "done" /\ postOut.kind = "raise" /\ rts >= 0) =>
    /\ Len(attemptLog) = (rts + 1) * MirrorCount
    /\ \A i \in 1..Len(attemptLog) : ~attemptLog[i].ok
    /\ postOut.exc = RequestException(rts, MirrorCount - 1)

\* C3: every backoff sleep of a call follows a round all of whose mirrors failed
\* (the k-th sleep comes after exactly k x M attempts, all failed, and follows
\* round k-1), is followed by another round (k-1 < R), and lasts
\* schedule[min(k-1, len(schedule)-1)] seconds (0-based), the last value being
\* reused once the schedule is exhausted.
C3_BackoffBetweenRounds ==
  postPc # "idle" =>
    \A k \in 1..Len(sleepLog) :
      /\ sleepLog[k].after = k - 1
      /\ sleepLog[k].at = k * MirrorCount
      /\ \A i \in 1..sleepLog[k].at : ~attemptLog[i].ok
      /\ sleepLog[k].after < rts
      /\ sleepLog[k].secs =
           Schedule[IF k <= Len(Schedule) THEN k ELSE Len(Schedule)]

\* A call that slept twice on a one-value schedule (the value is reused), and
\* then went through the whole last round without sleeping again.
C3_Witness ==
  /\ postPc = "done"
  /\ postOut.kind = "raise"
  /\ Len(Schedule) = 1
  /\ Len(sleepLog) = 2
  /\ sleepLog[2].secs = Schedule[1]
  /\ Len(attemptLog) = 3 * MirrorCount

\* The names of the loaded fallback entries of category k that lie within the
\* search radius of the path.
NearNames(k) ==
  { fb[k][i].name : i \in { j \in 1..Len(fb[k]) :
                              min_distance_to_path_m(fb[k][j].lat, path) <= 200000 } }

Names(list) == { list[i].name : i \in 1..Len(list) }

\* C4: in the result of analyze_path, fallback_asphalt is non-empty only if the
\* live asphalt list is empty, and fallback_rubber_recycling only if the live
\* rubber list is empty; the gates are independent: with live asphalt and no
\* live rubber, fallback_asphalt is empty and fallback_rubber_recycling holds
\* every loaded rubber-recycling entry within 200 km of the path.
C4_FallbackGating ==
  pc = "returned" =>
    /\ fallback.fallback_asphalt # <<>> => live[1] = <<>>
    /\ fallback.fallback_rubber_recycling # <<>> => live[3] = <<>>
    /\ (live[1] # <<>> /\ live[3] = <<>>) =>
         /\ fallback.fallback_asphalt = <<>>
         /\ Names(fallback.fallback_rubber_recycling) = NearNames("rubber_recycling")
         /\ Len(fallback.fallback_rubber_recycling) = Cardinality(NearNames("rubber_recycling"))

\* A result with live asphalt, no live rubber, a loaded asphalt fallback that is
\* gated away and a rubber-recycling fallback that is kept.
C4_Witness ==
  /\ pc = "returned"
  /\ live[1] # <<>>
  /\ live[3] = <<>>
  /\ NearNames("asphalt_plants") # {}
  /\ fallback.fallback_asphalt = <<>>
  /\ fallback.fallback_rubber_recycling # <<>>

\* C5: in the result of analyze_path, fallback_waste and
\* fallback_rubber_production are non-empty only if the live asphalt list and the
\* live rubber list are both empty.
C5_WasteAndProductionGating ==
  pc = "returned" =>
    ((fallback.fallback_waste # <<>> \/ fallback.fallback_rubber_production # <<>>)
       => (live[1] = <<>> /\ live[3] = <<>>))

\* A result where both lists are populated, neither category having a live
\* facility.
C5_Witness ==
  /\ pc = "returned"
  /\ fallback.fallback_waste # <<>>
  /\ fallback.fallback_rubber_production # <<>>
  /\ live[1] = <<>>
  /\ live[3] = <<>>

\* C6: when the overpass_post call of one of the six category queries has
\* raised, the next step of analyze_path is to raise that same exception: the
\* category's list is not filled in (no empty list stands in for it), no later
\* category is queried, and once raised the call never returns a result.
C6_QueryFailureIsFatal ==
  [][ /\ (pc = "query" /\ postPc = "done" /\ postOut.kind = "raise")
        => (pc' = "raised" /\ raisedExc' = postOut.exc /\ live' = live
            /\ answered' = answered /\ kindIdx' = kindIdx)
      /\ pc = "raised" => pc' = "raised" ]_vars

\* The rubber query (the third) failed on every mirror in every round and
\* analyze_path raised the last attempt's exception.
C6_Witness ==
  /\ pc = "raised"
  /\ answered = 2
  /\ rts >= 1
  /\ Len(attemptLog) = (rts + 1) * MirrorCount
  /\ raisedExc = RequestException(rts, MirrorCount - 1)

\* C7: analyze_path called with fewer than 2 points raises ValueError without
\* having issued any HTTP request, and stays failed (nothing retries it).
C7_ShortPathFailsFast ==
  (pc # "idle" /\ Len(path) < 2) =>
    /\ pc = "raised"
    /\ raisedExc = ValueError
    /\ ~queried
    /\ postPc = "idle"
    /\ attemptLog = <<>>

\* analyze_path has been called with a single point.
C7_Witness ==
  /\ pc = "raised"
  /\ Len(path) = 1

\* C8: once all six category queries have been answered, analyze_path ends by
\* returning a result, whatever the land-use lookups, the density lookups, the
\* fallback load and the map step do.
C8_CompletesWhenQueriesAnswered ==
  (answered = 6 /\ pc \in {"returned", "raised"}) => pc = "returned"

\* C9: a failure of the map step (no folium, os.makedirs raising, m.save
\* raising) does not reach the caller: analyze_path returns, with map_path None.
C9_MapFailureAbsorbed ==
  mapOutcome \in {"no_folium", "makedirs_error", "save_error"} =>
    (pc = "returned" /\ map_path = "None")

\* C10: when the overpass_post call of landuse_near has raised, the next step
\* leaves analyze_path running (nothing is raised), with landuse_score's result
\* for the candidate being (0.5, None).
C10_LanduseFailureIsNeutral ==
  [][ (pc = "landuse" /\ postPc = "done" /\ postOut.kind = "raise")
        => (lu' = [score |-> 50, label |-> "None"] /\ luHow' = "failed"
            /\ pc' = "buildings" /\ raisedExc' = NoExc) ]_vars

\* The land-use query failed on all mirrors in both of its rounds, and the
\* candidate is being scored with the neutral result.
C10_Witness ==
  /\ pc = "buildings"
  /\ luHow = "failed"
  /\ lu = [score |-> 50, label |-> "None"]
  /\ raisedExc = NoExc

\* The score record appended last by the running scoring loop.
LastScored ==
  IF stage = "existing" THEN existing[Len(existing)].score
  ELSE proposed[Len(proposed)].score

\* C11: when the overpass_post call of buildings_count_within has raised, the
\* next step raises nothing: the candidate is scored with a building count of 3,
\* hence with the density multiplier 0.7 (total = base x 0.7 x edge factor, or 0
\* under the land-use clamp), not with the multiplier 1.0 of a count of 0.
C11_DensityFailureIsConservative ==
  [][ (pc = "buildings" /\ postPc = "done" /\ postOut.kind = "raise")
        => /\ pc' = "score"
           /\ raisedExc' = NoExc
           /\ bHow' = "failed"
           /\ LastScored'.scores.buildings_count = 3
           /\ LastScored'.total_score =
                IF lu.score <= 5 THEN 0
                ELSE BaseScore(weights, LastScored'.scores) * 7
                       * EdgePenalty(path_fraction_at_point(LastScored'.point, path)) ]_vars

\* A candidate whose density query failed on all mirrors and was scored with
\* count 3 and a positive total.
C11_Witness ==
  /\ pc = "score"
  /\ bHow = "failed"
  /\ LastScored.scores.buildings_count = 3
  /\ LastScored.total_score > 0
  /\ DensityPenalty(LastScored.scores.buildings_count) = 7

\* C12: over the landuse_score calls of an analysis, made one after the other,
\* the land-use cache only grows: every key present stays, with the value it
\* had; the cache changes only by the write of a call that missed it, which adds
\* that call's key (the coordinate rounded to 5 decimals) and nothing else.
C12_CacheAdditive ==
  [][ /\ \A k \in DOMAIN cache : k \in DOMAIN cache' /\ cache'[k] = cache[k]
      /\ cache' # cache =>
           /\ pc = "landuse"
           /\ CacheKey(Candidates[candIdx]) \notin DOMAIN cache
           /\ DOMAIN cache' = DOMAIN cache \cup {CacheKey(Candidates[candIdx])}
           /\ cache'[CacheKey(Candidates[candIdx])] = lu' ]_vars

\* Two keys have been written; the first served two candidates (one written,
\* one answered from the cache) and still holds the value both were scored with.
C12_Witness ==
  /\ Cardinality(DOMAIN cache) = 2
  /\ Len(existing) = 2
  /\ existing[1].lat # existing[2].lat
  /\ CacheKey(existing[1].lat) = CacheKey(existing[2].lat)
  /\ cache[CacheKey(existing[1].lat)] # Neutral
  /\ \A i \in 1..2 :
       cache[CacheKey(existing[i].lat)].score = existing[i].score.scores.landuse_score

\* C13: when two landuse_score calls for the same cache key both missed the
\* cache and both have ended, they returned the same value, and that value is
\* the one left in the cache, whatever the interleaving.
C13_RaceIsBenign ==
  (/\ \A t \in Threads : lsPc[t] = "done" /\ lsMissed[t]
   /\ CacheKey(lsPoint[1]) = CacheKey(lsPoint[2]))
    => /\ lsRes[1] = lsRes[2]
       /\ cache[CacheKey(lsPoint[1])] = lsRes[1]

\* max(0, min(1, x)) in thousandths
Clamp01(x) == IF x < 0 THEN 0 ELSE IF x > 1000 THEN 1000 ELSE x

\* The results of the score_candidate calls made so far, each with its weights.
Scored ==
  (IF scPc = "scored" THEN {[w |-> scArgs.weights, out |-> scOut]} ELSE {})
    \cup (IF scArgs2 # NoCall THEN {[w |-> scArgs2.weights, out |-> scOut2]} ELSE {})

\* C14 (as amended): for any weight mapping, total_score_norm lies in [0, 1] and
\* is total_score divided by the sum of max(0, weight) over the weights, or by 1
\* when that sum is 0, clamped to [0, 1].
C14_NormInUnitInterval ==
  \A c \in Scored :
    LET s == SumPositive(c.w, DOMAIN c.w)
    IN /\ 0 <= c.out.total_score_norm
       /\ c.out.total_score_norm <= 1000
       /\ c.out.total_score_norm =
            Clamp01(c.out.total_score \div ((IF s = 0 THEN 10 ELSE s) * 100))

\* C14 as stated: total_score_norm is the clamped quotient of total_score by the
\* sum of max(0, weight), for every weight mapping (so that sum is a divisor).
C14_AsStated ==
  \A c \in Scored :
    LET s == SumPositive(c.w, DOMAIN c.w)
    IN /\ s # 0
       /\ c.out.total_score_norm = Clamp01(c.out.total_score \div (s * 100))

\* A call with an empty weight mapping and a positive total (built from the
\* default weights): the sum is 0, the divisor 1, and the quotient is clamped
\* to 1.
C14_Witness ==
  /\ scPc = "scored"
  /\ DOMAIN scArgs.weights = {}
  /\ scOut.total_score > 0
  /\ scOut.total_score_norm = 1000
  /\ scOut.total_score_norm # scOut.total_score \div 1000

\* C15: a candidate whose land-use score is <= 0.05 gets total_score 0 and
\* total_score_norm 0, whatever the weights, the proximity scores, the building
\* count and the path fraction.
C15_UnsuitableLanduseZeroes ==
  /\ \A c \in Scored :
       c.out.scores.landuse_score <= 5 =>
         (c.out.total_score = 0 /\ c.out.total_score_norm = 0)
  /\ (scFrac2 # NoFrac /\ scOut.scores.landuse_score <= 5) => scTotal2 = 0

\* A residential candidate in the interior of the path, open land, default
\* weights and non-zero proximity scores, scored 0.
C15_Witness ==
  /\ scPc = "scored"
  /\ scArgs.lu.score = 0
  /\ scArgs.weights = DEFAULT_WEIGHTS
  /\ scArgs.bcnt = 0
  /\ 10 * scFrac.num > scFrac.den /\ 10 * scFrac.num < 9 * scFrac.den
  /\ scOut.scores.near_road > 0
  /\ BaseScore(scArgs.weights, scOut.scores) > 0
  /\ scOut.total_score = 0

\* fraction <= 0.10 or >= 0.90
AtEdge(frac) == 10 * frac.num <= frac.den \/ 10 * frac.num >= 9 * frac.den

\* C16: of two candidates with the same factor scores, land-use score, building
\* count and weights, one at an edge fraction and one at an interior fraction,
\* the edge one has total_score <= 0.2 x the interior one's.
C16_EdgePenalty ==
  (scPc = "scored" /\ scFrac2 # NoFrac) =>
    /\ (AtEdge(scFrac2) /\ ~AtEdge(scFrac)) => 10 * scTotal2 <= 2 * scOut.total_score
    /\ (AtEdge(scFrac) /\ ~AtEdge(scFrac2)) => 10 * scOut.total_score <= 2 * scTotal2

\* An interior candidate with a positive total and its twin at fraction exactly
\* 0.10, whose total is positive too.
C16_Witness ==
  /\ scPc = "scored"
  /\ ~AtEdge(scFrac)
  /\ scFrac2 = [num |-> 1, den |-> 10]
  /\ scOut.total_score > 0
  /\ scTotal2 > 0

\* C17: two score_candidate calls that differ only in the ready_mix list return
\* the same total_score and total_score_norm, and the same component scores
\* except possibly ready_mix.
C17_ReadyMixNotInTotal ==
  scArgs2 # NoCall =>
    /\ scOut2.total_score = scOut.total_score
    /\ scOut2.total_score_norm = scOut.total_score_norm
    /\ [scOut2.scores EXCEPT !.ready_mix = 0] = [scOut.scores EXCEPT !.ready_mix = 0]

\* Two calls whose ready_mix component differs, under weights that carry an
\* entry for ready-mix, with a positive total.
C17_Witness ==
  /\ scArgs2 # NoCall
  /\ scArgs2.ready_mix # scArgs.ready_mix
  /\ scOut2.scores.ready_mix # scOut.scores.ready_mix
  /\ "ready_mix_proximity" \in DOMAIN scArgs.weights
  /\ scOut.total_score > 0

Ids(list) == { list[i].id : i \in 1..Len(list) }

\* C18: the existing list handed back by analyze_path(path, top_k = K) holds at
\* most K entries, each a scored live asphalt facility (one entry per facility),
\* in descending order of total_score, and no live asphalt facility left out of
\* it scores higher than one that was kept.
C18_ExistingTopK ==
  pc \in {"map", "returned"} =>
    /\ Len(existing_top) <= top_k
    /\ Len(existing_top) = Min(top_k, Len(live[1]))
    /\ Len(existing) = Len(live[1])
    /\ Ids(existing) = Ids(live[1])
    /\ \A i \in 1..Len(existing_top) :
         /\ existing_top[i] \in { existing[j] : j \in 1..Len(existing) }
         /\ existing_top[i].type = "asphalt"
         /\ \A j \in i..Len(existing_top) :
              existing_top[i].score.total_score >= existing_top[j].score.total_score
    /\ Cardinality(Ids(existing_top)) = Len(existing_top)
    /\ \A j \in 1..Len(existing) :
         existing[j].id \notin Ids(existing_top) =>
           \A i \in 1..Len(existing_top) :
             existing[j].score.total_score <= existing_top[i].score.total_score

\* Two live asphalt facilities, K = 1: the one scored second has the strictly
\* higher total and is the one kept.
C18_Witness ==
  /\ pc = "returned"
  /\ top_k = 1
  /\ Len(live[1]) = 2
  /\ Len(existing_top) = 1
  /\ existing_top[1].id = live[1][2].id
  /\ \E j \in 1..2 : existing[j].score.total_score < existing_top[1].score.total_score

\* The total length T of the path analysed, and the number of full 200 km
\* stretches in it.
PathTotal == _path_cumdist_m(path)[Len(path)]
FullStretches == PathTotal \div 200000

\* pt lies on some segment of pth, at arc length s from the start (to the metre).
OnPathAt(pt, pth, s) ==
  \E i \in 2..Len(pth) :
    /\ Min(pth[i-1], pth[i]) <= pt
    /\ pt <= Max(pth[i-1], pth[i])
    /\ Abs(_path_cumdist_m(pth)[i-1] + haversine_m(pth[i-1], pt) - s) <= 1

PathLength(pth) == IF pth = <<>> THEN 0 ELSE _path_cumdist_m(pth)[Len(pth)]

LongestSegment(pth) ==
  LET lens == { haversine_m(pth[i], pth[i+1]) : i \in 1..(Len(pth) - 1) }
  IN CHOOSE m \in lens : \A x \in lens : x <= m

\* C20: for a path of length D and a target length L with 0 < L < D, whatever
\* the anchor and the direction, the length of the sub-path slice_path_segment
\* returns differs from L by at most the length of one segment of the path (the
\* longest one).
C20_SliceWithinOneSegment ==
  (/\ slPc = "done"
   /\ 0 < slArgs.length_m
   /\ slArgs.length_m < PathLength(slArgs.path))
    => Abs(PathLength(slOut) - slArgs.length_m) <= LongestSegment(slArgs.path)

\* C21: slice_path_segment with a target length <= 0 or >= the length of the
\* path returns the whole path, every point once: in the original order for
\* direction forward, in the opposite order for direction reverse, whatever the
\* anchor.
C21_WholePathOutsideRange ==
  (/\ slPc = "done"
   /\ (slArgs.length_m <= 0 \/ slArgs.length_m >= PathLength(slArgs.path)))
    => /\ Len(slOut) = Len(slArgs.path)
       /\ \A i \in 1..Len(slOut) :
            slOut[i] = IF slArgs.direction = "forward" THEN slArgs.path[i]
                       ELSE slArgs.path[Len(slArgs.path) + 1 - i]

\* A target beyond the path's length, anchor end, direction reverse: the whole
\* path comes back last point first.
C21_Witness ==
  /\ slPc = "done"
  /\ slArgs.length_m > PathLength(slArgs.path)
  /\ slArgs.anchor = "end"
  /\ slArgs.direction = "reverse"
  /\ Len(slOut) = 7
  /\ slOut[1] = slArgs.path[7]
  /\ slOut[1] # slOut[7]

Points(list) == { list[i] : i \in 1..Len(list) }

\* The two sub-paths of the two-way call, by direction.
SliceForward == IF slArgs.direction = "forward" THEN slOut ELSE slOut2
SliceReverse == IF slArgs.direction = "forward" THEN slOut2 ELSE slOut

MidCase ==
  /\ slPc = "both"
  /\ slArgs.anchor = "mid"
  /\ 0 < slArgs.length_m
  /\ slArgs.length_m < PathLength(slArgs.path)

FallbackLoaded == pc \in {"score", "landuse", "buildings", "map", "returned"}

\* The category of the fallback file behind each fallback list, with its kind.
FallbackSource ==
  [fallback_asphalt |-> "asphalt_plants", fallback_waste |-> "waste_sites",
   fallback_rubber_recycling |-> "rubber_recycling",
   fallback_rubber_production |-> "rubber_production"]

\* The four lists annotate-and-filter produces from the loaded file, before gating.
Annotated ==
  [kind \in DOMAIN FallbackSource |-> _annotate_and_filter(fb[FallbackSource[kind]], kind, path)]

\* How many entries of a list have this name and latitude.
Copies(list, it) ==
  Cardinality({ i \in 1..Len(list) : list[i].name = it.name /\ list[i].lat = it.lat })

\* The loaded items of a category within the search radius of the path.
LoadedNear(key) ==
  LET Near(it) == min_distance_to_path_m(it.lat, path) <= 200000
  IN SelectSeq(fb[key], Near)

\* C23: every list annotate-and-filter produces holds exactly the loaded items
\* of its category whose minimum distance to the path is at most 200 km, each
\* with its distance_to_path_m, in ascending order of that distance; a gated
\* fallback list is that list or empty; the loaded records stay as loaded.
C23_AnnotateAndFilter ==
  FallbackLoaded =>
    \A kind \in DOMAIN FallbackSource :
      LET out == Annotated[kind]
          near == LoadedNear(FallbackSource[kind])
      IN /\ Len(out) = Len(near)
         /\ \A i \in 1..Len(near) : Copies(out, near[i]) = Copies(near, near[i])
         /\ \A i \in 1..Len(out) :
              /\ out[i].distance_to_path_m = min_distance_to_path_m(out[i].lat, path)
              /\ out[i].type = kind
         /\ \A i \in 1..Len(out) - 1 :
              out[i].distance_to_path_m <= out[i+1].distance_to_path_m
         /\ fallback[kind] \in {<<>>, out}
         /\ \A i \in 1..Len(fb[FallbackSource[kind]]) :
              DOMAIN fb[FallbackSource[kind]][i] = {"name", "lat"}

C23_Witness == FallbackLoaded /\ path = <<0, 314000>> /\ Len(fb["asphalt_plants"]) = 3 /\ Len(fallback["fallback_asphalt"]) = 2 /\ fallback["fallback_asphalt"][1].name = "A3" /\ Len(fallback["fallback_rubber_production"]) = 2 /\ fallback["fallback_rubber_production"][2].distance_to_path_m = 200000

\* The density multiplier of a building count, in tenths.
DensityTenths(bcnt) ==
  CASE bcnt <= 2 -> 10
    [] bcnt \in 3..5 -> 7
    [] bcnt >= 6 -> 4

\* C24: the density multiplier is 1.0 for a building count of at most 2, 0.7
\* for 3 to 5 and 0.4 for 6 or more; for a land-use score above 0.05 the total
\* is the weighted sum times that multiplier, times 0.2 when the path fraction
\* is <= 0.10 or >= 0.90.
C24_DensityAndEdgeMultiply ==
  (scPc = "scored" /\ scOut.scores.landuse_score > 5) =>
    LET sum == BaseScore(scArgs.weights, scOut.scores)
        density == DensityTenths(scArgs.bcnt)
    IN /\ scOut.scores.buildings_count = scArgs.bcnt
       /\ scOut.total_score = sum * density * (IF AtEdge(scFrac) THEN 2 ELSE 10)
       /\ scFrac2 # NoFrac => scTotal2 = sum * density * (IF AtEdge(scFrac2) THEN 2 ELSE 10)

C24_Witness == scPc = "scored" /\ scArgs.bcnt = 5 /\ scArgs.lu.score = 100 /\ scArgs.weights = DEFAULT_WEIGHTS /\ ~AtEdge(scFrac) /\ scFrac2 = [num |-> 9, den |-> 10] /\ scTotal2 > 0 /\ 5 * scTotal2 = scOut.total_score /\ scOut.total_score = BaseScore(DEFAULT_WEIGHTS, scOut.scores) * 70

\* The length of the path of the midpoint comparison, in units of 1e-10 m.
MidTotal == CumdistFine(mdPath, 1)[Len(mdPath)]

\* What the claim says of point_at_distance_m and path_midpoint on the path.
MidAgrees ==
  /\ (mdS.num = MidTotal /\ mdS.den = 2) => mdAt = mdMid
  /\ mdS.num <= 0 => mdAt = mdPath[1]
  /\ mdS.num >= mdS.den * MidTotal => mdAt = mdPath[Len(mdPath)]

CurrentKey == CacheKey(Candidates[candIdx])

\* C26: the result (0.5, None) of a failed land-use query is written to the
\* cache under the candidate's key and stays there; a landuse_score call for a
\* key in the cache returns the cached value and goes on to the density query
\* without a land-use query; a land-use query is issued only for a key that is
\* not in the cache.
C26_NeutralIsCached ==
  [][ /\ (pc = "landuse" /\ postPc = "done" /\ postOut.kind = "raise")
          => (CurrentKey \in DOMAIN cache' /\ cache'[CurrentKey] = [score |-> 50, label |-> "None"])
      /\ \A k \in failedKeys :
           k \in DOMAIN cache' /\ cache'[k] = [score |-> 50, label |-> "None"]
      /\ (pc = "score" /\ candIdx <= Len(Candidates) /\ CurrentKey \in DOMAIN cache)
          => (lu' = cache[CurrentKey] /\ pc' = "buildings"
              /\ caller' = "buildings_count_within" /\ cache' = cache)
      /\ (pc = "score" /\ pc' = "landuse")
          => (caller' = "landuse_near" /\ CurrentKey \notin DOMAIN cache) ]_vars

C26_Witness == pc = "buildings" /\ luHow = "hit" /\ CurrentKey \in failedKeys /\ lu = [score |-> 50, label |-> "None"] /\ Cardinality(DOMAIN cache) = 1 /\ candIdx = 2

\* C27: for a path of at least two points, whatever the length, anchor and
\* direction, slice_path_segment returns at least two points, a path
\* analyze_path accepts.
C27_SliceKeepsTwoPoints ==
  (slPc # "idle" /\ Len(slArgs.path) >= 2) => (Len(slOut) >= 2 /\ ~PathTooShort(slOut))

\* The order of the category queries, as claimed.
QueryOrder == <<"asphalt", "quarry", "rubber", "highway_major", "ready_mix", "bitumen">>

\* No candidate has been scored and no land-use or density query has ended.
NothingScored == existing = <<>> /\ proposed = <<>> /\ cache = <<>> /\ luHow = "none" /\ bHow = "none"

\* C28: the six category queries are issued one after the other in the order
\* asphalt, quarry, rubber, highway_major, ready_mix, bitumen (the i-th list
\* filled holds facilities of the i-th category, and the i-th query is in flight
\* only when the i-1 before it have been answered); a land-use or density query
\* is in flight only when all six have been answered; when a category query has
\* failed, no later category is queried and no candidate is scored.
C28_QueriesInOrder ==
  /\ \A i \in 1..6 :
       /\ i > answered => live[i] = <<>>
       /\ \A j \in 1..Len(live[i]) : live[i][j].type = QueryOrder[i]
  /\ pc = "query" =>
       /\ caller = "overpass_query"
       /\ kindIdx = answered + 1
       /\ kindIdx <= 6
       /\ NothingScored
  /\ (postPc \notin {"idle", "done"} /\ caller \in {"landuse_near", "buildings_count_within"}) =>
       (answered = 6 /\ pc \in {"landuse", "buildings"})
  /\ pc \in {"landuse", "buildings", "score", "map", "returned"} => answered = 6
  /\ (pc = "raised" /\ answered < 6) =>
       /\ postPc \in {"idle", "done"}
       /\ Len(path) >= 2 => (kindIdx = answered + 1 /\ caller = "overpass_query")
       /\ NothingScored

C28_Witness == pc = "raised" /\ answered = 3 /\ kindIdx = 4 /\ live[1] # <<>> /\ live[3] # <<>> /\ live[4] = <<>> /\ Len(attemptLog) >= MirrorCount /\ NothingScored

\* C29: an overpass_post call that has ended, by returning or by raising, has
\* made at least one attempt, whatever the retries argument and OSM_RETRIES.
C29_AlwaysOneAttempt == postPc = "done" => Len(attemptLog) >= 1

\* C30: fallback facilities are never scored or ranked. The scored existing
\* plants are live asphalt results, in number at most the live results and all
\* of them once the loop has ended; a candidate being scored in the loop over
\* existing plants is a live asphalt result; each score is the one
\* score_candidate gives with the live quarry, rubber, highway, ready-mix and
\* bitumen lists; with no live asphalt result nothing is scored as existing,
\* whatever fallback_asphalt holds.
C30_FallbackNeverScored ==
  /\ Len(existing) <= Len(live[1])
  /\ \A i \in 1..Len(existing) :
       /\ existing[i].type = "asphalt"
       /\ \E j \in 1..Len(live[1]) :
            live[1][j].id = existing[i].id /\ live[1][j].lat = existing[i].lat
       /\ CacheKey(existing[i].lat) \in DOMAIN cache
       /\ existing[i].score =
            score_candidate(existing[i].lat, path, live[2], live[3], live[4], live[5], live[6],
                            weights, cache[CacheKey(existing[i].lat)],
                            existing[i].score.scores.buildings_count)
  /\ (stage = "existing" /\ pc \in {"landuse", "buildings"}) => candIdx <= Len(live[1])
  /\ pc \in {"map", "returned"} =>
       /\ Len(existing) = Len(live[1])
       /\ \A i \in 1..Len(existing_top) : \E j \in 1..Len(existing) : existing_top[i] = existing[j]
  /\ live[1] = <<>> => (existing = <<>> /\ existing_top = <<>>)

C30_Witness == pc = "returned" /\ live[1] = <<>> /\ live[3] = <<>> /\ Len(fallback.fallback_asphalt) = 2 /\ fallback.fallback_rubber_recycling # <<>> /\ existing = <<>> /\ existing_top = <<>>

====
